---- MODULE Spec2Model ----
(***************************************************************************)
(* Lifecycle orchestrator of atlas.js (packages/atlas/src/atlas.mjs).      *)
(*                                                                         *)
(* One Atlas instance driven by a single owner: registration calls         *)
(* (service / hook / action) and the asynchronous lifecycle calls          *)
(* prepare(), start() and stop().  An asynchronous call is cut at its      *)
(* awaits: every step below is the code that runs between two awaits.      *)
(* A call that rejects inside a Promise.all leaves the other members of    *)
(* the batch running: they settle later, whatever the owner calls next.    *)
(* The component container and the helpers imported from ./private         *)
(* (component, expose, dispatch) are modelled from the specification.      *)
(* Every component keeps the default `internal = false`.                   *)
(***************************************************************************)
EXTENDS Naturals, Sequences, FiniteSets, TLC

\* Bound of the model: components the owner registers, of all kinds together.
MaxComponents == 2
\* Bound of the model: lifecycle calls the owner makes.
MaxCalls == 3
\* Bound of the model: component operations that reject.
MaxFailures == 2

VARIABLES
  catalog,     \* hidden().catalog: the three ordered registries
  observers,   \* hidden().observers: ordered aliases of the hooks observing atlas
  prepared,    \* hidden().prepared
  started,     \* hidden().started
  services,    \* this.services: aliases published on the public surface
  actions,     \* this.actions: aliases published on the public surface
  cstate,      \* state of every container
  call,        \* the owner's lifecycle call in progress, or "none"
  fn,          \* the function currently executing (prepare, start or stop)
  pc,          \* the await it is suspended at
  idx,         \* position of the sequential loop in progress
  inflight,    \* operations the call in progress launched and is awaiting
  background,  \* operations left running by calls that rejected, with their call
  error,       \* stop(): the local `error`
  err,         \* start(): the `err` caught from a service's start
  last,        \* outcome of the last finished lifecycle call
  prev,        \* the lifecycle call before it, and whether it resolved
  reg,         \* what the registration call just made returned or threw
  ncalls,      \* lifecycle calls made so far
  nfails,      \* component operations that rejected so far
  trace,       \* instrumentation: what the current lifecycle call invoked, in order
  completed,   \* instrumentation: operations that resolved during the current call
  entry        \* instrumentation: public state when the current call began

vars == <<catalog, observers, prepared, started, services, actions, cstate,
          call, fn, pc, idx, inflight, background, error, err, last, prev, reg,
          ncalls, nfails, trace, completed, entry>>

----------------------------------------------------------------------------
\* Values

HookAliases == 1..MaxComponents
ServiceAliases == 1..MaxComponents
ActionAliases == 1..MaxComponents

\* The static `observes` of a hook class: "atlas", another component, or missing.
Observes == {"atlas", "other", "none"}

Events == {"afterPrepare", "beforeStart", "afterStart", "beforeStop", "afterStop"}

Keys == ({"hook"} \X HookAliases) \cup ({"service"} \X ServiceAliases)
          \cup ({"action"} \X ActionAliases)

Op(kind, alias, op) == [kind |-> kind, alias |-> alias, op |-> op]

NoError == Op("none", 0, "none")

Ev(ev, o) == [ev |-> ev, kind |-> o.kind, alias |-> o.alias, op |-> o.op]

NoCall == [op |-> "none", ok |-> TRUE, error |-> NoError]

NoReg == "none"

Range(s) == {s[i] : i \in 1..Len(s)}

Reverse(s) == [i \in 1..Len(s) |-> s[Len(s) + 1 - i]]

Has(s, k) == \E i \in 1..Len(s) : s[i] = k

\* Array.from(hooks): the aliases of the hook registry, in insertion order
HookList == [i \in 1..Len(catalog.hooks) |-> catalog.hooks[i].alias]

OpsOf(kind, aliases, op) == [i \in 1..Len(aliases) |-> Op(kind, aliases[i], op)]

Begins(ops) == [i \in 1..Len(ops) |-> Ev("begin", ops[i])]

----------------------------------------------------------------------------
\* Map.prototype.set on an insertion-ordered map: a present key keeps its place
MapSet(m, k) == IF Has(m, k) THEN m ELSE Append(m, k)

RECURSIVE MapSetAll(_, _)
MapSetAll(m, ks) == IF ks = <<>> THEN m ELSE MapSetAll(MapSet(m, Head(ks)), Tail(ks))

----------------------------------------------------------------------------
Init ==
  /\ catalog = [hooks |-> <<>>, services |-> <<>>, actions |-> <<>>]
  /\ observers = <<>>
  /\ prepared = FALSE
  /\ started = FALSE
  /\ services = {}
  /\ actions = {}
  /\ cstate = [k \in Keys |-> "unregistered"]
  /\ call = "none"
  /\ fn = "none"
  /\ pc = "idle"
  /\ idx = 0
  /\ inflight = {}
  /\ background = {}
  /\ error = NoError
  /\ err = NoError
  /\ last = NoCall
  /\ prev = [op |-> "none", ok |-> TRUE]
  /\ reg = NoReg
  /\ ncalls = 0
  /\ nfails = 0
  /\ trace = <<>>
  /\ completed = {}
  /\ entry = [prepared |-> FALSE, started |-> FALSE, services |-> {}, actions |-> {}]

\* The single owner makes a call once the previous one has settled
Idle == call = "none"

----------------------------------------------------------------------------
\* Registration

\* Containers in the three registries
Registered == Len(catalog.hooks) + Len(catalog.services) + Len(catalog.actions)

\* component(info, catalog): a taken alias throws, otherwise a new container is
\* appended to the registry
component(kind, registry, alias, item) ==
  IF \E i \in 1..Len(catalog[registry]) :
       (IF kind = "hook" THEN catalog[registry][i].alias ELSE catalog[registry][i]) = alias
    THEN /\ reg' = "FrameworkError"
         /\ UNCHANGED <<catalog, cstate>>
    ELSE /\ Registered < MaxComponents
         /\ reg' = "this"
         /\ catalog' = [catalog EXCEPT ![registry] = Append(@, item)]
         /\ cstate' = [cstate EXCEPT ![<<kind, alias>>] = "registered"]

\* The owner makes a registration call.  Aliases are interchangeable names, so
\* the n-th new alias of a kind is named n; the instrumentation of the
\* lifecycle call before it is dropped.
Registers(registry, alias) ==
  /\ Idle
  /\ alias <= Len(catalog[registry]) + 1
  /\ trace' = <<>>
  /\ completed' = {}
  /\ entry' = [prepared |-> prepared, started |-> started,
               services |-> services, actions |-> actions]
  /\ last' = [last EXCEPT !.error = NoError]
  /\ UNCHANGED <<observers, prepared, started, services, actions, call, fn, pc, idx,
                 inflight, error, err, prev, ncalls, background, nfails>>

\* Mutant: the service is added to the registry of the actions
service_into_actions(alias) ==
  /\ Registers("actions", alias)
  /\ component("service", "actions", alias, alias)

service(alias) ==
  /\ Registers("services", alias)
  /\ component("service", "services", alias, alias)

hook(alias, obs) ==
  /\ Registers("hooks", alias)
  /\ component("hook", "hooks", alias, [alias |-> alias, observes |-> obs])

action(alias) ==
  /\ Registers("actions", alias)
  /\ component("action", "actions", alias, alias)

----------------------------------------------------------------------------
\* Control flow of the asynchronous calls

ctl == <<call, fn, pc, idx, last, prev, err, error>>

\* The owner calls a lifecycle method
BeginCall(op, f, p, i) ==
  /\ ncalls < MaxCalls
  /\ ncalls' = ncalls + 1
  /\ call' = op
  /\ fn' = f
  /\ pc' = p
  /\ idx' = i
  /\ error' = NoError
  /\ err' = NoError
  /\ reg' = NoReg
  /\ trace' = <<>>
  /\ completed' = {}
  /\ entry' = [prepared |-> prepared, started |-> started,
               services |-> services, actions |-> actions]
  /\ last' = NoCall
  /\ prev' = [op |-> last.op, ok |-> last.ok]
  /\ UNCHANGED <<catalog, observers, prepared, started, services, actions, cstate,
                 inflight, background, nfails>>

\* The function in progress moves on to its next await
Goto(f, p, i) ==
  /\ fn' = f
  /\ pc' = p
  /\ idx' = i
  /\ UNCHANGED <<call, last, prev, err, error>>

\* The owner's call settles: resolved with the orchestrator, or rejected with e
Finish(ok, e) ==
  /\ call' = "none"
  /\ fn' = "none"
  /\ pc' = "idle"
  /\ idx' = 0
  /\ prev' = prev
  /\ last' = [op |-> call, ok |-> ok, error |-> e]
  /\ err' = NoError
  /\ error' = NoError

\* The reason a service's stop rejected with: named by the operation that threw
\* it, and truthy (an Error) or falsy (undefined, null, 0, '', false)
Thrown(o, truthy) == [reason |-> o, truthy |-> truthy]

\* `if (error)`: a reason was kept and it is truthy
Truthy(e) == e # NoError /\ e.truthy

\* Mutant: a failed rollback replaces the original error
rollback_throws_stopErr(original, stopErr) ==
  IF stopErr # NoError THEN stopErr ELSE original

\* start(), after its rollback stop() settled with stopErr (NoError when it
\* resolved): the rollback's failure is only logged and the original error thrown
rollback(original, stopErr) == original

\* Mutant: a component's prepare that rejects does not end prepare()
Reject_prepare_goes_on(e) ==
  IF fn = "prepare" /\ pc \in {"hooks", "actions", "services"}
    THEN UNCHANGED ctl
    ELSE IF fn = "stop" /\ call = "start"
           THEN Finish(FALSE, rollback(err, e))
           ELSE Finish(FALSE, e)

\* Mutant: any rejection inside start() is rolled back
Reject_start_rolls_back(e) ==
  IF fn = "start"
    THEN /\ fn' = "stop"
         /\ pc' = "beforeStop"
         /\ idx' = 1
         /\ err' = e
         /\ UNCHANGED <<call, last, prev, error>>
    ELSE IF fn = "stop" /\ call = "start"
           THEN Finish(FALSE, rollback(err, e))
           ELSE Finish(FALSE, e)

\* Mutant: a hook's or an action's stop that rejects is kept like a service's
Reject_stop_goes_on(e) ==
  IF fn = "stop" /\ call = "stop" /\ pc = "components"
    THEN /\ error' = Thrown(e, TRUE)
         /\ UNCHANGED <<call, fn, pc, idx, last, prev, err>>
    ELSE IF fn = "stop" /\ call = "start"
           THEN Finish(FALSE, rollback(err, e))
           ELSE Finish(FALSE, e)

\* The function in progress throws e
Reject(e) ==
  IF fn = "stop" /\ call = "start"
    THEN Finish(FALSE, rollback(err, e))
    ELSE Finish(FALSE, e)

\* The function in progress returns `this`
Return ==
  CASE fn = "prepare" /\ call = "start" -> Goto("start", "beforeStart", 1)
    [] fn = "stop" /\ call = "start" -> Finish(FALSE, rollback(err, NoError))
    [] OTHER -> Finish(TRUE, NoError)

\* A component operation resolves (ok) or rejects
Outcome(ok) ==
  /\ ok \/ nfails < MaxFailures
  /\ nfails' = IF ok THEN nfails ELSE nfails + 1

\* Operations are invoked one after the other and left running
Launch(ops) ==
  /\ inflight' = inflight \cup Range(ops)
  /\ trace' = trace \o Begins(ops)

----------------------------------------------------------------------------
\* Component container

\* Whether the container hands the operation to the component (an operation on
\* a container already in the target state returns without side effects)
Invokes(o) ==
  CASE o.op = "prepare" -> cstate[<<o.kind, o.alias>>] \notin {"prepared", "started"}
    [] o.op = "start" -> cstate[<<o.kind, o.alias>>] # "started"
    [] o.op = "stop" -> cstate[<<o.kind, o.alias>>] = "started"
    [] OTHER -> TRUE

\* The container's state once the operation resolved
Resolved(o) ==
  IF ~Invokes(o) THEN cstate
  ELSE [cstate EXCEPT ![<<o.kind, o.alias>>] =
          CASE o.op = "prepare" -> "prepared"
            [] o.op = "start" -> "started"
            [] o.op = "stop" -> "stopped"
            [] OTHER -> @]

\* expose(collection, alias, instance): publish the instance under its alias
expose(surface, alias) == surface \cup {alias}

\* prepare(): what follows `await container.prepare()` for an action or a service
Published(o) ==
  /\ services' = IF o.op = "prepare" /\ o.kind = "service"
                   THEN expose(services, o.alias) ELSE services
  /\ actions' = IF o.op = "prepare" /\ o.kind = "action"
                  THEN expose(actions, o.alias) ELSE actions

----------------------------------------------------------------------------
\* prepare()

\* Mutant: only the first hook's `observes` is checked
FirstBad_first_only ==
  IF catalog.hooks # <<>> /\ catalog.hooks[1].observes = "none" THEN 1 ELSE 0

\* The first hook without a static `observes`, 0 when every hook has one
FirstBad ==
  IF \E i \in 1..Len(catalog.hooks) : catalog.hooks[i].observes = "none"
    THEN CHOOSE i \in 1..Len(catalog.hooks) :
           /\ catalog.hooks[i].observes = "none"
           /\ \A j \in 1..(i - 1) : catalog.hooks[j].observes # "none"
    ELSE 0

\* The hooks the scan reached that observe atlas itself, in registry order
RECURSIVE AtlasHooks(_, _)
AtlasHooks(hs, n) ==
  IF n = 0 THEN <<>>
  ELSE IF hs[n].observes = "atlas"
         THEN Append(AtlasHooks(hs, n - 1), hs[n].alias)
         ELSE AtlasHooks(hs, n - 1)

Scanned == IF FirstBad = 0 THEN Len(catalog.hooks) ELSE FirstBad - 1

\* Mutant: prepare() runs again on a prepared orchestrator
ShortCircuit_never == FALSE

\* prepare() returns at once on an orchestrator that is prepared
ShortCircuit == prepared

prepare ==
  /\ Idle
  /\ BeginCall("prepare", "prepare", "enter", 0)

prepare_enter ==
  /\ fn = "prepare" /\ pc = "enter"
  /\ IF ShortCircuit
       THEN /\ Return
            /\ UNCHANGED <<observers, inflight, trace>>
       ELSE /\ observers' = MapSetAll(observers, AtlasHooks(catalog.hooks, Scanned))
            /\ IF FirstBad # 0
                 THEN /\ Reject(Op("hook", catalog.hooks[FirstBad].alias, "observes"))
                      /\ UNCHANGED <<inflight, trace>>
                 ELSE /\ Launch(OpsOf("hook", HookList, "prepare"))
                      /\ Goto("prepare", "hooks", 0)
  /\ UNCHANGED <<catalog, prepared, started, services, actions, cstate, reg, ncalls, background,
                 nfails, completed, entry>>

\* Mutant: the actions are prepared without awaiting the hooks
prepare_actions_unawaited ==
  /\ fn = "prepare" /\ pc = "hooks"
  /\ Launch(OpsOf("action", catalog.actions, "prepare"))
  /\ Goto("prepare", "actions", 0)
  /\ UNCHANGED <<catalog, observers, prepared, started, services, actions, cstate,
                 reg, ncalls, background, nfails, completed, entry>>

prepare_actions ==
  /\ fn = "prepare" /\ pc = "hooks" /\ inflight = {}
  /\ Launch(OpsOf("action", catalog.actions, "prepare"))
  /\ Goto("prepare", "actions", 0)
  /\ UNCHANGED <<catalog, observers, prepared, started, services, actions, cstate,
                 reg, ncalls, background, nfails, completed, entry>>

prepare_services ==
  /\ fn = "prepare" /\ pc = "actions" /\ inflight = {}
  /\ Launch(OpsOf("service", catalog.services, "prepare"))
  /\ Goto("prepare", "services", 0)
  /\ UNCHANGED <<catalog, observers, prepared, started, services, actions, cstate,
                 reg, ncalls, background, nfails, completed, entry>>

prepare_done ==
  /\ fn = "prepare" /\ pc = "services" /\ inflight = {}
  /\ prepared' = TRUE
  /\ Goto("prepare", "afterPrepare", 1)
  /\ UNCHANGED <<catalog, observers, started, services, actions, cstate, inflight,
                 reg, ncalls, background, nfails, trace, completed, entry>>

\* prepare(): `return this` once afterPrepare went to every observer
prepare_return ==
  /\ fn = "prepare" /\ pc = "afterPrepare" /\ inflight = {}
  /\ idx > Len(observers)
  /\ Return
  /\ UNCHANGED <<catalog, observers, prepared, started, services, actions, cstate,
                 inflight, reg, ncalls, background, nfails, trace, completed, entry>>

----------------------------------------------------------------------------
\* dispatch(event, subject), bound to a map of hooks

\* Mutant: the hooks are notified last-registered first
DispatchTargets_reversed(event) ==
  Reverse(IF event = "afterStop" THEN HookList ELSE observers)

\* Mutant: afterStop is dispatched on the observers like the other events
DispatchTargets_observers_only(event) == observers

\* The map each lifecycle event is dispatched on
DispatchTargets(event) ==
  IF event = "afterStop" THEN HookList ELSE observers

\* The next hook of the map is notified and awaited
dispatch ==
  /\ call # "none" /\ pc \in Events /\ inflight = {}
  /\ idx <= Len(DispatchTargets(pc))
  /\ Launch(<<Op("hook", DispatchTargets(pc)[idx], pc)>>)
  /\ UNCHANGED <<catalog, observers, prepared, started, services, actions, cstate,
                 reg, ncalls, background, nfails, completed, entry>>
  /\ UNCHANGED ctl

\* The notified hook's handler settles
dispatch_settle(ok) ==
  /\ Outcome(ok)
  /\ call # "none" /\ pc \in Events
  /\ \E o \in inflight :
       /\ inflight' = inflight \ {o}
       /\ IF ok
            THEN /\ Goto(fn, pc, idx + 1)
                 /\ trace' = Append(trace, Ev("ok", o))
                 /\ completed' = completed \cup {o}
            ELSE /\ Reject(o)
                 /\ trace' = Append(trace, Ev("fail", o))
                 /\ UNCHANGED completed
  /\ UNCHANGED <<catalog, observers, prepared, started, services, actions, cstate,
                 reg, ncalls, background, entry>>

----------------------------------------------------------------------------
\* Promise.all over a batch of container operations

InBatch ==
  /\ call # "none"
  /\ \/ fn = "prepare" /\ pc \in {"hooks", "actions", "services"}
     \/ fn \in {"start", "stop"} /\ pc = "components"

\* The members of a rejected batch that have not settled: nothing awaits them
\* any more
Abandoned(ops) == {<<o, ncalls>> : o \in ops}

\* A member of the batch being awaited settles; the first rejection rejects the
\* function, the other members keep running
batch_settle(ok) ==
  /\ Outcome(ok)
  /\ InBatch
  /\ \E o \in inflight :
       /\ ok \/ Invokes(o)
       /\ IF ok
            THEN /\ inflight' = inflight \ {o}
                 /\ cstate' = Resolved(o)
                 /\ Published(o)
                 /\ completed' = completed \cup {o}
                 /\ UNCHANGED <<ctl, trace, background>>
            ELSE /\ Reject(o)
                 /\ inflight' = {}
                 /\ background' = background \cup Abandoned(inflight \ {o})
                 /\ trace' = Append(trace, Ev("fail", o))
                 /\ UNCHANGED <<cstate, services, actions, completed>>
  /\ UNCHANGED <<catalog, observers, prepared, started, reg, ncalls, entry>>

\* An operation left running by a call that has already rejected settles
background_settle(ok) ==
  /\ Outcome(ok)
  /\ \E b \in background :
       /\ ok \/ Invokes(b[1])
       /\ background' = background \ {b}
       /\ IF ok
            THEN /\ cstate' = Resolved(b[1])
                 /\ Published(b[1])
            ELSE UNCHANGED <<cstate, services, actions>>
  /\ UNCHANGED <<catalog, observers, prepared, started, inflight, reg, ncalls, trace,
                 completed, entry>>
  /\ UNCHANGED ctl

----------------------------------------------------------------------------
\* start()

\* The catch around a service's start: o is kept as `err` and stop() is called
catch(o) ==
  /\ fn' = "stop"
  /\ pc' = "beforeStop"
  /\ idx' = 1
  /\ err' = o
  /\ UNCHANGED <<call, last, prev, error>>

\* Mutant: the services are started last-registered first
StartOrderReversed == Reverse(catalog.services)

\* The order in which start() starts the services
StartOrder == catalog.services

\* start() begins by calling prepare()
start ==
  /\ Idle
  /\ BeginCall("start", "prepare", "enter", 0)

\* Mutant: the hooks and actions are started without awaiting beforeStart
start_components_unawaited ==
  /\ fn = "start" /\ pc = "beforeStart"
  /\ Launch(OpsOf("hook", HookList, "start") \o OpsOf("action", catalog.actions, "start"))
  /\ Goto("start", "components", 1)
  /\ UNCHANGED <<catalog, observers, prepared, started, services, actions, cstate,
                 reg, ncalls, background, nfails, completed, entry>>

start_components ==
  /\ fn = "start" /\ pc = "beforeStart" /\ inflight = {}
  /\ idx > Len(observers)
  /\ Launch(OpsOf("hook", HookList, "start") \o OpsOf("action", catalog.actions, "start"))
  /\ Goto("start", "components", 1)
  /\ UNCHANGED <<catalog, observers, prepared, started, services, actions, cstate,
                 reg, ncalls, background, nfails, completed, entry>>

\* The loop over the services: the next service is started and awaited
start_service ==
  /\ fn = "start" /\ pc \in {"components", "services"} /\ inflight = {}
  /\ idx <= Len(StartOrder)
  /\ Launch(<<Op("service", StartOrder[idx], "start")>>)
  /\ Goto("start", "services", idx)
  /\ UNCHANGED <<catalog, observers, prepared, started, services, actions, cstate,
                 reg, ncalls, background, nfails, completed, entry>>

\* The awaited service start settles; a rejection is caught and stop() called
start_service_settle(ok) ==
  /\ Outcome(ok)
  /\ fn = "start" /\ pc = "services"
  /\ \E o \in inflight :
       /\ ok \/ Invokes(o)
       /\ inflight' = inflight \ {o}
       /\ IF ok
            THEN /\ cstate' = Resolved(o)
                 /\ trace' = Append(trace, Ev("ok", o))
                 /\ completed' = completed \cup {o}
                 /\ Goto("start", "services", idx + 1)
            ELSE /\ trace' = Append(trace, Ev("fail", o))
                 /\ catch(o)
                 /\ UNCHANGED <<cstate, completed>>
  /\ UNCHANGED <<catalog, observers, prepared, started, services, actions, reg, ncalls,
                 background, entry>>

start_done ==
  /\ fn = "start" /\ pc \in {"components", "services"} /\ inflight = {}
  /\ idx > Len(StartOrder)
  /\ started' = TRUE
  /\ Goto("start", "afterStart", 1)
  /\ UNCHANGED <<catalog, observers, prepared, services, actions, cstate, inflight,
                 reg, ncalls, background, nfails, trace, completed, entry>>

start_return ==
  /\ fn = "start" /\ pc = "afterStart" /\ inflight = {}
  /\ idx > Len(observers)
  /\ Return
  /\ UNCHANGED <<catalog, observers, prepared, started, services, actions, cstate,
                 inflight, reg, ncalls, background, nfails, trace, completed, entry>>

----------------------------------------------------------------------------
\* stop()

\* Mutant: the services are stopped in registration order
StopOrderForward == catalog.services

\* The order in which stop() stops the services
StopOrder == Reverse(catalog.services)

\* `delete this.services[alias]`
Unpublished(alias) == services \ {alias}

\* The catch around a service's stop: `error = err`
Captured(old, e) == e

\* `delete this.actions[alias]` for every registered action
Unregistered == actions \ Range(catalog.actions)

stop ==
  /\ Idle
  /\ BeginCall("stop", "stop", "beforeStop", 1)

stop_components ==
  /\ fn = "stop" /\ pc = "beforeStop" /\ inflight = {}
  /\ idx > Len(observers)
  /\ Launch(OpsOf("hook", HookList, "stop") \o OpsOf("action", catalog.actions, "stop"))
  /\ Goto("stop", "components", 1)
  /\ UNCHANGED <<catalog, observers, prepared, started, services, actions, cstate,
                 reg, ncalls, background, nfails, completed, entry>>

\* The loop over the services: the next service is unpublished, then stopped
stop_service ==
  /\ fn = "stop" /\ pc \in {"components", "services"} /\ inflight = {}
  /\ idx <= Len(StopOrder)
  /\ services' = Unpublished(StopOrder[idx])
  /\ Launch(<<Op("service", StopOrder[idx], "stop")>>)
  /\ Goto("stop", "services", idx)
  /\ UNCHANGED <<catalog, observers, prepared, started, actions, cstate,
                 reg, ncalls, background, nfails, completed, entry>>

\* The awaited service stop settles; the reason of a rejection is kept in `error`
stop_service_settle(ok, truthy) ==
  /\ Outcome(ok)
  /\ ok => truthy
  /\ fn = "stop" /\ pc = "services"
  /\ \E o \in inflight :
       /\ ok \/ Invokes(o)
       /\ inflight' = inflight \ {o}
       /\ fn' = fn
       /\ pc' = pc
       /\ idx' = idx + 1
       /\ IF ok
            THEN /\ cstate' = Resolved(o)
                 /\ trace' = Append(trace, Ev("ok", o))
                 /\ completed' = completed \cup {o}
                 /\ UNCHANGED error
            ELSE /\ trace' = Append(trace, Ev("fail", o))
                 /\ error' = Captured(error, Thrown(o, truthy))
                 /\ UNCHANGED <<cstate, completed>>
  /\ UNCHANGED <<catalog, observers, prepared, started, services, actions, reg, ncalls,
                 background, entry,
                 call, last, prev, err>>

\* Mutant: stop() resets prepared and leaves started
stop_cleanup_keeps_started ==
  /\ fn = "stop" /\ pc \in {"components", "services"} /\ inflight = {}
  /\ idx > Len(StopOrder)
  /\ actions' = Unregistered
  /\ prepared' = FALSE
  /\ Goto("stop", "afterStop", 1)
  /\ UNCHANGED <<catalog, observers, started, services, cstate, inflight, reg, ncalls, background,
                 nfails, trace, completed, entry>>

\* After the loop: the actions are unpublished and the flags reset
stop_cleanup ==
  /\ fn = "stop" /\ pc \in {"components", "services"} /\ inflight = {}
  /\ idx > Len(StopOrder)
  /\ actions' = Unregistered
  /\ started' = FALSE
  /\ prepared' = FALSE
  /\ Goto("stop", "afterStop", 1)
  /\ UNCHANGED <<catalog, observers, services, cstate, inflight, reg, ncalls, background,
                 nfails, trace,
                 completed, entry>>

\* After afterStop went to every hook: the kept reason is thrown if it is truthy
stop_return ==
  /\ fn = "stop" /\ pc = "afterStop" /\ inflight = {}
  /\ idx > Len(DispatchTargets("afterStop"))
  /\ IF Truthy(error) THEN Reject(error.reason) ELSE Return
  /\ UNCHANGED <<catalog, observers, prepared, started, services, actions, cstate,
                 inflight, reg, ncalls, background, nfails, trace, completed, entry>>

----------------------------------------------------------------------------
Next ==
  \/ \E a \in ServiceAliases : service(a)
  \/ \E a \in HookAliases, o \in Observes : hook(a, o)
  \/ \E a \in ActionAliases : action(a)
  \/ prepare
  \/ prepare_enter
  \/ prepare_actions
  \/ prepare_services
  \/ prepare_done
  \/ prepare_return
  \/ dispatch
  \/ \E ok \in BOOLEAN : dispatch_settle(ok)
  \/ \E ok \in BOOLEAN : batch_settle(ok)
  \/ \E ok \in BOOLEAN : background_settle(ok)
  \/ start
  \/ start_components
  \/ start_service
  \/ \E ok \in BOOLEAN : start_service_settle(ok)
  \/ start_done
  \/ start_return
  \/ stop
  \/ stop_components
  \/ stop_service
  \/ \E ok \in BOOLEAN, truthy \in BOOLEAN : stop_service_settle(ok, truthy)
  \/ stop_cleanup
  \/ stop_return

Spec == Init /\ [][Next]_vars

----------------------------------------------------------------------------
\* Reading the instrumentation

\* The lifecycle call op has just settled and the owner has made no call since
Finished(op) == call = "none" /\ last.op = op /\ reg = NoReg

\* The step is the settling of an operation that an earlier, rejected call left
\* running: it is no step of the call in progress
Straggler == background' # background /\ background' \subseteq background

\* What the current call did to the services with operation op, in order
ServiceTrace(op) == SelectSeq(trace, LAMBDA e : e.kind = "service" /\ e.op = op)

\* The notifications of event the current call sent, in order
EventTrace(event) == SelectSeq(trace, LAMBDA e : e.kind = "hook" /\ e.op = event)

\* The events the current call delivered to hook h, in order
Delivered(h) ==
  LET sent == SelectSeq(trace, LAMBDA e : /\ e.kind = "hook" /\ e.alias = h
                                           /\ e.op \in Events /\ e.ev = "begin")
  IN [i \in 1..Len(sent) |-> sent[i].op]

Begun(o) == \E i \in 1..Len(trace) : trace[i] = Ev("begin", o)

Failed(o) == \E i \in 1..Len(trace) : trace[i] = Ev("fail", o)

\* One at a time: every invocation is followed by its own outcome before the next
OneAtATime(evs) ==
  \A i \in 1..Len(evs) :
    IF i % 2 = 1
      THEN evs[i].ev = "begin"
      ELSE evs[i].ev \in {"ok", "fail"} /\ evs[i].alias = evs[i - 1].alias

\* The invocations follow `order`, none skipped
Follows(evs, order) ==
  /\ Len(evs) <= 2 * Len(order)
  /\ \A i \in 1..Len(evs) : evs[i].alias = order[(i + 1) \div 2]

\* A service whose start rejected during the current call
StartFailed(k) == Failed(Op("service", k, "start"))

\* Position of a service in registration order
ServicePos(a) == CHOOSE i \in 1..Len(catalog.services) : catalog.services[i] = a

\* The registered hooks that observe atlas itself
AtlasHookSet == {catalog.hooks[i].alias : i \in {j \in 1..Len(catalog.hooks) :
                                              catalog.hooks[j].observes = "atlas"}}

----------------------------------------------------------------------------
\* C1: start() starts the services one at a time in registration order: a
\* service's start begins only after the start of the service registered before
\* it has resolved, a rejection ends the loop, and a start() that resolves has
\* started every registered service.
C1_StartSequential ==
  LET evs == ServiceTrace("start") IN
  /\ OneAtATime(evs)
  /\ Follows(evs, catalog.services)
  /\ \A i \in 1..Len(evs) : evs[i].ev = "fail" => i = Len(evs)
  /\ (Finished("start") /\ last.ok) => Len(evs) = 2 * Len(catalog.services)

C1_Witness ==
  /\ Finished("start") /\ last.ok
  /\ Len(catalog.services) >= 2
  /\ Len(ServiceTrace("start")) = 2 * Len(catalog.services)

\* C2: stop() attempts the services' stop one at a time in reverse registration
\* order: a service's stop begins only after the stop of the service registered
\* after it has settled, and a stop() that resolves has attempted every service.
C2_StopReverseSequential ==
  LET evs == ServiceTrace("stop") IN
  /\ OneAtATime(evs)
  /\ Follows(evs, Reverse(catalog.services))
  /\ (Finished("stop") /\ last.ok) => Len(evs) = 2 * Len(catalog.services)

C2_Witness ==
  /\ Finished("stop") /\ last.ok
  /\ Len(catalog.services) >= 2
  /\ entry.started
  /\ Len(ServiceTrace("stop")) = 2 * Len(catalog.services)

\* C3: when service k's start rejects during start(), start() rejects with
\* exactly k's error, whatever the rollback stop() does, and no service
\* registered after k is started.
C3_OriginalErrorRethrown ==
  \A k \in ServiceAliases :
    (Finished("start") /\ StartFailed(k)) =>
      /\ ~last.ok
      /\ last.error = Op("service", k, "start")
      /\ \A a \in ServiceAliases :
           Begun(Op("service", a, "start")) => ServicePos(a) <= ServicePos(k)

\* A rollback that itself failed after service k's start rejected
C3_Witness ==
  \E k \in ServiceAliases :
    /\ Finished("start") /\ StartFailed(k)
    /\ \E i \in 1..Len(trace) :
         /\ trace[i].ev = "fail"
         /\ trace[i] # Ev("fail", Op("service", k, "start"))

\* The components whose start resolved during the current call
Started(kinds) == {o \in completed : o.op = "start" /\ o.kind \in kinds}

StopBegun(o) == Begun(Op(o.kind, o.alias, "stop"))

\* C4 as stated: when service k's start rejects during start(), every
\* service, hook and action already started has had its stop invoked by the
\* time start() rejects.
C4_AllStartedStopped ==
  \A k \in ServiceAliases :
    (Finished("start") /\ StartFailed(k)) =>
      \A o \in Started({"hook", "action", "service"}) : StopBegun(o)

\* The rollback stop() was cut short before it stopped the hooks and actions
BeforeStopFailed == \E h \in HookAliases : Failed(Op("hook", h, "beforeStop"))

\* The rollback stop() was cut short before it reached the services
ComponentStopFailed ==
  \/ \E h \in HookAliases : Failed(Op("hook", h, "stop"))
  \/ \E a \in ActionAliases : Failed(Op("action", a, "stop"))

\* C5 as stated: once start() has resolved and the stop() after it has resolved,
\* prepared and started are false and nothing is published under services or
\* actions.
C5_RoundTrip ==
  (Finished("stop") /\ last.ok /\ prev = [op |-> "start", ok |-> TRUE]) =>
    /\ ~prepared
    /\ ~started
    /\ services = {}
    /\ actions = {}

\* The services whose stop rejected during the current call
StopFailures == {a \in ServiceAliases : Failed(Op("service", a, "stop"))}

\* Among them the one the reverse loop processed last
LastStopFailure ==
  CHOOSE a \in StopFailures : \A b \in StopFailures : ServicePos(a) <= ServicePos(b)

AttemptedOnce(a) ==
  Cardinality({i \in 1..Len(trace) : trace[i] = Ev("begin", Op("service", a, "stop"))}) = 1

\* C6 as stated: a service's stop rejecting does not end the loop, every
\* registered service has its stop attempted exactly once, and stop() rejects
\* with the error of the failing service processed last.
C6_LastServiceErrorThrown ==
  (Finished("stop") /\ StopFailures # {}) =>
    /\ \A a \in Range(catalog.services) : AttemptedOnce(a)
    /\ ~last.ok
    /\ last.error = Op("service", LastStopFailure, "stop")

\* A lifecycle call is in progress or has just settled
Calling(ops) == call \in ops \/ \E op \in ops : Finished(op)

\* C7: prepare() on a prepared orchestrator resolves without invoking any
\* component or dispatching any event, and leaves the public mappings and the
\* flags as they were.
C7_PrepareIdempotent ==
  (Calling({"prepare"}) /\ entry.prepared) =>
    /\ trace = <<>>
    /\ inflight = {}
    /\ services = entry.services
    /\ actions = entry.actions
    /\ prepared = entry.prepared
    /\ started = entry.started
    /\ Finished("prepare") => last.ok

C7_Witness ==
  /\ Finished("prepare") /\ last.ok /\ entry.prepared
  /\ catalog.services # <<>>
  /\ catalog.hooks # <<>>

HasBadHook == \E i \in 1..Len(catalog.hooks) : catalog.hooks[i].observes = "none"

\* C8: with a hook that lacks `observes` registered, prepare() on an unprepared
\* orchestrator rejects with the configuration error of such a hook, having
\* prepared no component, dispatched nothing and left prepared false, and no
\* step of it publishes anything; so does the prepare() a start() begins with.
C8_MissingObserves ==
  /\ []((Calling({"prepare", "start"}) /\ ~entry.prepared /\ HasBadHook) =>
         /\ trace = <<>>
         /\ inflight = {}
         /\ ~prepared
         /\ call = "none" =>
              /\ ~last.ok
              /\ last.error.kind = "hook" /\ last.error.op = "observes"
              /\ \E i \in 1..Len(catalog.hooks) :
                   /\ catalog.hooks[i].alias = last.error.alias
                   /\ catalog.hooks[i].observes = "none")
  /\ [][(call \in {"prepare", "start"} /\ ~entry.prepared /\ HasBadHook /\ ~Straggler) =>
          (services' = services /\ actions' = actions)]_vars

C8_Witness ==
  /\ Finished("prepare") /\ ~last.ok /\ last.error.op = "observes"
  /\ Registered >= 2

HookPos(a) == CHOOSE i \in 1..Len(catalog.hooks) : catalog.hooks[i].alias = a

\* C9: the hooks that observe atlas receive afterPrepare, beforeStart and
\* afterStart, in that order, from a start() that resolves on an unprepared
\* orchestrator, and beforeStop then afterStop from the stop() that resolves
\* after it; the hooks notified of one event are notified one at a time, in
\* registration order.
C9_ObserverOrder ==
  /\ \A event \in Events :
       LET evs == EventTrace(event) IN
       /\ OneAtATime(evs)
       /\ \A i, j \in 1..Len(evs) :
            (i < j /\ evs[i].ev = "begin" /\ evs[j].ev = "begin") =>
              HookPos(evs[i].alias) < HookPos(evs[j].alias)
  /\ (Finished("start") /\ last.ok /\ ~entry.prepared) =>
       \A h \in AtlasHookSet :
         Delivered(h) = <<"afterPrepare", "beforeStart", "afterStart">>
  /\ (Finished("stop") /\ last.ok /\ prev = [op |-> "start", ok |-> TRUE]) =>
       \A h \in Range(observers) : Delivered(h) = <<"beforeStop", "afterStop">>

C9_Witness ==
  /\ Finished("stop") /\ last.ok /\ prev = [op |-> "start", ok |-> TRUE]
  /\ Len(observers) >= 2
  /\ \A h \in Range(observers) : Delivered(h) = <<"beforeStop", "afterStop">>

\* C10 as stated: in stop() a service is unpublished before its stop is invoked
\* and stays unpublished whatever the outcome, while the services that were
\* published when stop() was called and that the loop has not reached are still
\* published.
C10_UnpublishedBeforeStop ==
  /\ \A a \in ServiceAliases : Begun(Op("service", a, "stop")) => a \notin services
  /\ call = "stop" =>
       \A b \in entry.services : ~Begun(Op("service", b, "stop")) => b \in services

\* stop() has just rejected with the error it kept from a service's stop
RejectedWithServiceError ==
  /\ Finished("stop") /\ ~last.ok
  /\ last.error.kind = "service" /\ last.error.op = "stop"

\* C11 as stated: when stop() rejects with the error kept from a service's stop, the
\* cleanup is over: no action and no service is published, started and prepared
\* are false, and afterStop has gone to every hook.
C11_RethrownAfterCleanup ==
  RejectedWithServiceError =>
    /\ actions = {}
    /\ services = {}
    /\ ~started
    /\ ~prepared
    /\ \A h \in Range(HookList) :
         /\ Begun(Op("hook", h, "afterStop"))
         /\ Op("hook", h, "afterStop") \in completed

\* C12 as stated: the orchestrator invokes a component's start only when that
\* component's prepare has resolved since it was last stopped.
C12_StartOnlyPrepared ==
  \A o \in inflight :
    o.op = "start" => cstate[<<o.kind, o.alias>>] \in {"prepared", "started"}

\* The aliases of a registry, in registration order
AliasesOf(cat, registry) ==
  IF registry = "hooks"
    THEN [i \in 1..Len(cat.hooks) |-> cat.hooks[i].alias]
    ELSE cat[registry]

KindOf(registry) ==
  CASE registry = "hooks" -> "hook"
    [] registry = "services" -> "service"
    [] registry = "actions" -> "action"

Registries == {"hooks", "services", "actions"}

\* C13: a registry holds exactly the aliases registered for its kind, each
\* once; a registration that fails leaves the three registries as they were,
\* and one that returns the orchestrator has appended one container with a new
\* alias at the end of one registry and left the other two alone (the steps
\* after a registration call and before the next lifecycle call are the call
\* itself, or the settling of an operation an earlier call left running).
C13_Registration ==
  /\ [](\A registry \in Registries :
          LET as == AliasesOf(catalog, registry) IN
          /\ \A i, j \in 1..Len(as) : as[i] = as[j] => i = j
          /\ \A a \in 1..MaxComponents :
               Has(as, a) <=> cstate[<<KindOf(registry), a>>] # "unregistered")
  /\ [][(reg' # NoReg /\ ~Straggler) =>
          /\ reg' = "FrameworkError" => catalog' = catalog
          /\ reg' = "this" =>
               \E registry \in Registries :
                 /\ Len(catalog'[registry]) = Len(catalog[registry]) + 1
                 /\ SubSeq(catalog'[registry], 1, Len(catalog[registry])) = catalog[registry]
                 /\ ~Has(AliasesOf(catalog, registry),
                         AliasesOf(catalog', registry)[Len(catalog'[registry])])
                 /\ \A other \in Registries \ {registry} :
                      catalog'[other] = catalog[other]]_vars

\* An alias taken in two registries, then refused a second time in one of them
C13_Witness ==
  /\ reg = "FrameworkError"
  /\ \E a \in 1..MaxComponents :
       Cardinality({registry \in Registries : Has(AliasesOf(catalog, registry), a)}) >= 2

\* Every container of a kind has resolved operation op during the current call
AllCompleted(kind, aliases, op) ==
  \A i \in 1..Len(aliases) : Op(kind, aliases[i], op) \in completed

BegunAny(kind, op) == \E i \in 1..Len(trace) :
  trace[i].ev = "begin" /\ trace[i].kind = kind /\ trace[i].op = op

\* C14: while prepare() runs, an action's prepare has begun only if every
\* hook's prepare has resolved, a service's prepare has begun only if every
\* action's prepare has resolved and the action is published, prepared is true
\* only if every service's prepare has resolved and the service is published,
\* and afterPrepare has been sent only if prepared is true.
C14_PreparePhases ==
  (fn = "prepare" /\ ~entry.prepared) =>
    /\ BegunAny("action", "prepare") => AllCompleted("hook", HookList, "prepare")
    /\ BegunAny("service", "prepare") =>
         /\ AllCompleted("action", catalog.actions, "prepare")
         /\ Range(catalog.actions) \subseteq actions
    /\ prepared =>
         /\ AllCompleted("service", catalog.services, "prepare")
         /\ Range(catalog.services) \subseteq services
    /\ BegunAny("hook", "afterPrepare") => prepared

C14_Witness ==
  /\ fn = "prepare" /\ ~entry.prepared
  /\ catalog.actions # <<>>
  /\ BegunAny("service", "prepare")
  /\ prepared

\* C15: during start(), a hook's or an action's start has begun only if
\* beforeStart has been delivered to every observer, a service's start has
\* begun only if every hook's and every action's start has resolved, started
\* has become true only if every registered service's start has resolved, and
\* afterStart has been sent only if started is true.
C15_StartPhases ==
  (call = "start" \/ Finished("start")) =>
    /\ (BegunAny("hook", "start") \/ BegunAny("action", "start")) =>
         AllCompleted("hook", observers, "beforeStart")
    /\ BegunAny("service", "start") =>
         /\ AllCompleted("hook", HookList, "start")
         /\ AllCompleted("action", catalog.actions, "start")
    /\ (started /\ ~entry.started) =>
         AllCompleted("service", catalog.services, "start")
    /\ BegunAny("hook", "afterStart") => started

C15_Witness ==
  /\ Finished("start") /\ last.ok /\ ~entry.started
  /\ observers # <<>>
  /\ catalog.services # <<>>
  /\ BegunAny("hook", "afterStart")

\* The operation of the i-th event of the trace
OpAt(i) == Op(trace[i].kind, trace[i].alias, trace[i].op)

NoneBegun(ops) == \A i \in 1..Len(trace) : trace[i].op \notin ops

\* C16: when a component's prepare rejects, the call (prepare(), or the start()
\* that called it) rejects with that error; prepared is false, afterPrepare is
\* not sent, nothing is started or stopped, no action or service prepare has
\* begun after a hook's failure and no service prepare after an action's.
C16_PrepareAborts ==
  \A i \in 1..Len(trace) :
    (trace[i].ev = "fail" /\ trace[i].op = "prepare") =>
      /\ call = "none"
      /\ last.op \in {"prepare", "start"}
      /\ ~last.ok
      /\ last.error = OpAt(i)
      /\ ~prepared
      /\ NoneBegun({"afterPrepare", "beforeStart", "start", "afterStart",
                    "beforeStop", "stop", "afterStop"})
      /\ trace[i].kind = "hook" =>
           ~BegunAny("action", "prepare") /\ ~BegunAny("service", "prepare")
      /\ trace[i].kind = "action" => ~BegunAny("service", "prepare")

C16_Witness ==
  /\ Finished("prepare")
  /\ \E h \in HookAliases : Failed(Op("hook", h, "prepare"))
  /\ catalog.services # <<>>

\* The i-th event is the rejection of a hook's or action's start, or of an
\* observer's beforeStart handler
StartPhaseFailure(i) ==
  /\ trace[i].ev = "fail"
  /\ \/ trace[i].op = "beforeStart"
     \/ trace[i].op = "start" /\ trace[i].kind \in {"hook", "action"}

\* C17: when a hook's or an action's start, or an observer's beforeStart,
\* rejects, start() rejects with that error; no stop of any kind is invoked, no
\* service is started, started keeps its value, prepared is true and what
\* prepare() published is still published.
C17_NoRollbackBeforeServices ==
  \A i \in 1..Len(trace) :
    StartPhaseFailure(i) =>
      /\ call = "none"
      /\ last.op = "start"
      /\ ~last.ok
      /\ last.error = OpAt(i)
      /\ NoneBegun({"beforeStop", "stop", "afterStop", "afterStart"})
      /\ ~BegunAny("service", "start")
      /\ started = entry.started
      /\ prepared
      /\ IF entry.prepared
           THEN services = entry.services /\ actions = entry.actions
           ELSE /\ services = Range(catalog.services)
                /\ actions = Range(catalog.actions)

C17_Witness ==
  /\ Finished("start")
  /\ \E h \in HookAliases : Failed(Op("hook", h, "start"))
  /\ ~entry.prepared
  /\ services # {}
  /\ prepared /\ ~started

\* The services whose stop the current call has attempted, in order
StopAttempts ==
  LET sent == SelectSeq(ServiceTrace("stop"), LAMBDA e : e.ev = "begin")
  IN [i \in 1..Len(sent) |-> sent[i].alias]

\* The hooks the current call has sent event to, in order
NotifiedOf(event) ==
  LET sent == SelectSeq(EventTrace(event), LAMBDA e : e.ev = "begin")
  IN [i \in 1..Len(sent) |-> sent[i].alias]

IsPrefix(s, t) == Len(s) <= Len(t) /\ \A i \in 1..Len(s) : s[i] = t[i]

\* C18: afterPrepare, beforeStart, afterStart and beforeStop go to hooks of the
\* observer registry only, afterStop goes to the hooks of the catalog whether
\* they observe atlas or not, to all of them once stop() resolves; it is sent
\* only after every registered service was unpublished by the loop, and after
\* the step that emptied the actions mapping and left started and prepared
\* false, a step that comes before the first afterStop notification.
C18_AfterStopTargets ==
  /\ [](/\ \A event \in Events \ {"afterStop"} : IsPrefix(NotifiedOf(event), observers)
        /\ IsPrefix(NotifiedOf("afterStop"), HookList)
        /\ (Finished("stop") /\ last.ok) => NotifiedOf("afterStop") = HookList
        /\ NotifiedOf("afterStop") # <<>> =>
             /\ ~started
             /\ ~prepared
             /\ StopAttempts = Reverse(catalog.services))
  /\ [][\A a \in ServiceAliases :
          (~Begun(Op("service", a, "stop")) /\ Begun(Op("service", a, "stop"))') =>
            a \notin services']_vars
  /\ [][(fn = "stop" /\ pc # "afterStop" /\ pc' = "afterStop") =>
          /\ actions' = {}
          /\ ~started' /\ ~prepared'
          /\ NotifiedOf("afterStop") = <<>>]_vars
  /\ [][(NotifiedOf("afterStop") = <<>> /\ NotifiedOf("afterStop")' # <<>>) =>
          (fn = "stop" /\ pc = "afterStop")]_vars

C18_Witness ==
  /\ Finished("stop") /\ last.ok /\ entry.started
  /\ observers # <<>>
  /\ \E h \in Range(HookList) :
       /\ h \notin Range(observers)
       /\ Begun(Op("hook", h, "afterStop"))
       /\ ~Begun(Op("hook", h, "beforeStop"))

\* The i-th event is the rejection of an observer's beforeStop handler or of a
\* hook's or action's stop
StopPhaseFailure(i) ==
  /\ trace[i].ev = "fail"
  /\ \/ trace[i].op = "beforeStop"
     \/ trace[i].op = "stop" /\ trace[i].kind \in {"hook", "action"}

\* C19: when an observer's beforeStop or a hook's or action's stop rejects,
\* stop() ends there: no service's stop is attempted and afterStop is not sent,
\* and a stop() the owner called rejects with that error, nothing that was
\* published when it was called having been removed and the two flags being
\* what they were.
C19_StopAbortsUnchanged ==
  \A i \in 1..Len(trace) :
    StopPhaseFailure(i) =>
      /\ call = "none"
      /\ ~BegunAny("service", "stop")
      /\ NoneBegun({"afterStop"})
      /\ last.op = "stop" =>
           /\ ~last.ok
           /\ last.error = OpAt(i)
           /\ entry.services \subseteq services
           /\ entry.actions \subseteq actions
           /\ prepared = entry.prepared
           /\ started = entry.started

C19_Witness ==
  /\ Finished("stop")
  /\ \E h \in HookAliases : Failed(Op("hook", h, "stop"))
  /\ entry.started /\ started
  /\ entry.services # {}
  /\ entry.services \subseteq services

\* C20: prepared and started are false until the first lifecycle call, started
\* implies prepared in every state, only start() turns started true and only
\* stop() turns either flag false.
C20_Flags ==
  /\ [](ncalls = 0 => ~prepared /\ ~started)
  /\ [](started => prepared)
  /\ [][(~started /\ started') => (call = "start" /\ fn = "start")]_vars
  /\ [][((prepared /\ ~prepared') \/ (started /\ ~started')) => fn = "stop"]_vars

C20_Witness ==
  /\ Finished("stop")
  /\ entry.prepared /\ entry.started
  /\ ~prepared /\ ~started
  /\ prev = [op |-> "start", ok |-> TRUE]

\* C21 as stated: the observer registry holds only registered hooks that
\* observe atlas, each once, in hook registration order, and after a prepare()
\* that resolved it holds every such hook.
C21_ObserverRegistry ==
  /\ Range(observers) \subseteq AtlasHookSet
  /\ \A i, j \in 1..Len(observers) :
       i < j => HookPos(observers[i]) < HookPos(observers[j])
  /\ (Finished("prepare") /\ last.ok) => Range(observers) = AtlasHookSet

\* The rollback stop() returned or threw at its end
RollbackCompleted ==
  /\ ~BeforeStopFailed
  /\ ~ComponentStopFailed
  /\ \A h \in HookAliases : ~Failed(Op("hook", h, "afterStop"))

\* C22 as stated: once start() has rejected because service k's start failed,
\* the rollback has attempted the stop of every registered service in reverse
\* registration order and no service is published; when the rollback ran to
\* completion, prepared and started are false and no action is published.
C22_RollbackStopsAll ==
  \A k \in ServiceAliases :
    (Finished("start") /\ StartFailed(k)) =>
      /\ StopAttempts = Reverse(catalog.services)
      /\ services = {}
      /\ RollbackCompleted => (~prepared /\ ~started /\ actions = {})

====
